---------------------------- MODULE Spec2Model ----------------------------
(***************************************************************************)
(* Model of the calendar event access layer of src/google_calendar.py:     *)
(* ListGoogleCalendarEvents, CreateGoogleCalendarEvent and                 *)
(* UpdateGoogleCalendarEvent, together with the calendar provider they     *)
(* call (calendarList.list, events.list/get/insert/update).                *)
(*                                                                         *)
(* Python strings that the code parses, formats or compares are sequences  *)
(* of one-character strings; opaque texts (summary, location, ids) are     *)
(* TLA+ strings.  Provider JSON objects are functions from keys to values. *)
(***************************************************************************)
EXTENDS Integers, Sequences, FiniteSets, TLC

(***************************************************************************)
(* Characters and Python's str ordering (by code point).                   *)
(***************************************************************************)
Digits == <<"0", "1", "2", "3", "4", "5", "6", "7", "8", "9">>

DigitSet == {Digits[i] : i \in 1..10}

IsDigit(c) == c \in DigitSet

\* int() of one decimal digit
DigitVal(c) == CHOOSE v \in 0..9 : Digits[v + 1] = c

\* ord() of the characters that occur in the modelled strings
Ord(c) ==
    CASE c = " " -> 32
      [] c = "+" -> 43
      [] c = "-" -> 45
      [] c = "/" -> 47
      [] IsDigit(c) -> 48 + DigitVal(c)
      [] c = ":" -> 58
      [] c = "T" -> 84
      [] c = "Z" -> 90
      [] c = "a" -> 97
      [] c = "d" -> 100
      [] c = "e" -> 101
      [] c = "n" -> 110
      [] c = "o" -> 111
      [] c = "t" -> 116

\* s[i] when i is inside s, else a marker that matches no pattern character
At(s, i) == IF i \in 1..Len(s) THEN s[i] ELSE "<eos>"

\* Python's  a < b  on str: lexicographic by code point, a proper prefix first
StrLess(a, b) ==
    \E k \in 1..(Len(b)) :
        /\ \A j \in 1..(k - 1) : j <= Len(a) /\ a[j] = b[j]
        /\ \/ k = Len(a) + 1
           \/ k <= Len(a) /\ Ord(a[k]) < Ord(b[k])

StrLeq(a, b) == a = b \/ StrLess(a, b)

\* zero-padded decimal renderings, as %02d and %04d
Pad2(n) == <<Digits[(n \div 10) + 1], Digits[(n % 10) + 1]>>

Pad4(n) == Pad2(n \div 100) \o Pad2(n % 100)

(***************************************************************************)
(* Values of the Python side.                                              *)
(***************************************************************************)
\* None where a datetime string is expected
NoneDT == <<"<None>">>

\* None where a text (summary, location, description) is expected
NoneV == "<None>"

\* what a failed strptime raises (datetime.strptime raises ValueError)
ValueError == [ok |-> FALSE, error |-> "ValueError"]

\* tz.gettz's result for a name it cannot resolve
NoTz == "<NoTz>"

(***************************************************************************)
(* datetime.strptime(s, '%Y-%m-%dT%H:%M:%S').  _strptime compiles the       *)
(* format to the regular expression                                        *)
(*   (\d\d\d\d)-(1[0-2]|0[1-9]|[1-9])-(3[0-1]|[1-2]\d|0[1-9]|[1-9]| [1-9])  *)
(*   T(2[0-3]|[0-1]\d|\d):([0-5]\d|\d):(6[0-1]|[0-5]\d|\d)                  *)
(* matched case-insensitively at the start of s; a match shorter than s    *)
(* is "unconverted data remains".  Each field but the last is followed by  *)
(* a literal, so its alternative is the first one after which the literal  *)
(* comes.  The matched fields are then given to the datetime constructor,  *)
(* which checks their ranges.                                              *)
(***************************************************************************)
\* 1[0-2]|0[1-9]|[1-9]  followed by sep: the length matched, 0 if none
MonthLen(s, p, sep) ==
    IF /\ \/ At(s, p) = "1" /\ At(s, p + 1) \in {"0", "1", "2"}
          \/ At(s, p) = "0" /\ At(s, p + 1) \in (DigitSet \ {"0"})
       /\ At(s, p + 2) \in sep
    THEN 2
    ELSE IF At(s, p) \in (DigitSet \ {"0"}) /\ At(s, p + 1) \in sep
    THEN 1
    ELSE 0

\* 3[0-1]|[1-2]\d|0[1-9]|[1-9]| [1-9]  followed by sep
DayLen(s, p, sep) ==
    IF /\ \/ At(s, p) = "3" /\ At(s, p + 1) \in {"0", "1"}
          \/ At(s, p) \in {"1", "2"} /\ IsDigit(At(s, p + 1))
          \/ At(s, p) = "0" /\ At(s, p + 1) \in (DigitSet \ {"0"})
          \/ At(s, p) = " " /\ At(s, p + 1) \in (DigitSet \ {"0"})
       /\ At(s, p + 2) \in sep
    THEN 2
    ELSE IF At(s, p) \in (DigitSet \ {"0"}) /\ At(s, p + 1) \in sep
    THEN 1
    ELSE 0

\* 2[0-3]|[0-1]\d|\d  followed by sep
HourLen(s, p, sep) ==
    IF /\ \/ At(s, p) = "2" /\ At(s, p + 1) \in {"0", "1", "2", "3"}
          \/ At(s, p) \in {"0", "1"} /\ IsDigit(At(s, p + 1))
       /\ At(s, p + 2) \in sep
    THEN 2
    ELSE IF IsDigit(At(s, p)) /\ At(s, p + 1) \in sep
    THEN 1
    ELSE 0

\* [0-5]\d|\d  followed by sep
MinuteLen(s, p, sep) ==
    IF /\ At(s, p) \in {"0", "1", "2", "3", "4", "5"} /\ IsDigit(At(s, p + 1))
       /\ At(s, p + 2) \in sep
    THEN 2
    ELSE IF IsDigit(At(s, p)) /\ At(s, p + 1) \in sep
    THEN 1
    ELSE 0

\* 6[0-1]|[0-5]\d|\d  as the last field: the first alternative that matches
SecondLen(s, p) ==
    IF \/ At(s, p) = "6" /\ At(s, p + 1) \in {"0", "1"}
       \/ At(s, p) \in {"0", "1", "2", "3", "4", "5"} /\ IsDigit(At(s, p + 1))
    THEN 2
    ELSE IF IsDigit(At(s, p))
    THEN 1
    ELSE 0

\* int() of the field of length n at p; a leading blank (%d) is stripped
FieldVal(s, p, n) ==
    IF n = 1 THEN DigitVal(s[p])
    ELSE IF s[p] = " " THEN DigitVal(s[p + 1])
    ELSE 10 * DigitVal(s[p]) + DigitVal(s[p + 1])

IsLeap(y) == (y % 4 = 0) /\ ((y % 100 # 0) \/ (y % 400 = 0))

DaysInMonth(y, m) ==
    IF m = 2 THEN (IF IsLeap(y) THEN 29 ELSE 28)
    ELSE IF m \in {4, 6, 9, 11} THEN 30
    ELSE 31

\* the range checks of the datetime constructor
ValidFields(y, m, d, H, M, S) ==
    /\ y \in 1..9999
    /\ m \in 1..12
    /\ d \in 1..DaysInMonth(y, m)
    /\ H \in 0..23
    /\ M \in 0..59
    /\ S \in 0..59

\* the regular expression is compiled with re.IGNORECASE
SepT == {"T", "t"}

\* datetime(y, m, d, H, M, S), or its ValueError
MakeChecked(y, m, d, H, M, S) ==
    IF ValidFields(y, m, d, H, M, S)
    THEN [ok |-> TRUE, year |-> y, month |-> m, day |-> d,
          hour |-> H, minute |-> M, second |-> S]
    ELSE ValueError

\* the fields at the positions found, through the datetime constructor
MakeDatetime(s, pm, lm, pd, ld, pH, lH, pM, lM, pS, lS) ==
    IF Len(s) # pS + lS - 1 THEN ValueError
    ELSE MakeChecked(1000 * DigitVal(s[1]) + 100 * DigitVal(s[2])
                       + 10 * DigitVal(s[3]) + DigitVal(s[4]),
                     FieldVal(s, pm, lm), FieldVal(s, pd, ld), FieldVal(s, pH, lH),
                     FieldVal(s, pM, lM), FieldVal(s, pS, lS))

MatchSecond(s, pm, lm, pd, ld, pH, lH, pM, lM, pS, lS) ==
    IF lS = 0 THEN ValueError
    ELSE MakeDatetime(s, pm, lm, pd, ld, pH, lH, pM, lM, pS, lS)

MatchMinute(s, pm, lm, pd, ld, pH, lH, pM, lM) ==
    IF lM = 0 THEN ValueError
    ELSE MatchSecond(s, pm, lm, pd, ld, pH, lH, pM, lM,
                     pM + lM + 1, SecondLen(s, pM + lM + 1))

MatchHour(s, pm, lm, pd, ld, pH, lH) ==
    IF lH = 0 THEN ValueError
    ELSE MatchMinute(s, pm, lm, pd, ld, pH, lH,
                     pH + lH + 1, MinuteLen(s, pH + lH + 1, {":"}))

MatchDay(s, pm, lm, pd, ld) ==
    IF ld = 0 THEN ValueError
    ELSE MatchHour(s, pm, lm, pd, ld, pd + ld + 1, HourLen(s, pd + ld + 1, {":"}))

MatchMonth(s, pm, lm) ==
    IF lm = 0 THEN ValueError
    ELSE MatchDay(s, pm, lm, pm + lm + 1, DayLen(s, pm + lm + 1, SepT))

strptime(s) ==
    IF \E k \in 1..4 : ~IsDigit(At(s, k)) THEN ValueError
    ELSE IF At(s, 5) # "-" THEN ValueError
    ELSE MatchMonth(s, 6, MonthLen(s, 6, {"-"}))

(***************************************************************************)
(* Calendar arithmetic (proleptic Gregorian, as datetime): day numbers     *)
(* count from 1970-01-01.                                                  *)
(***************************************************************************)
DaysFromCivil(y, m, d) ==
    LET yy  == IF m <= 2 THEN y - 1 ELSE y
        era == yy \div 400
        yoe == yy - era * 400
        mp  == IF m > 2 THEN m - 3 ELSE m + 9
        doy == ((153 * mp + 2) \div 5) + d - 1
        doe == yoe * 365 + (yoe \div 4) - (yoe \div 100) + doy
    IN  era * 146097 + doe - 719468

CivilFromDays(z) ==
    LET zz  == z + 719468
        era == zz \div 146097
        doe == zz - era * 146097
        yoe == (doe - (doe \div 1460) + (doe \div 36524) - (doe \div 146096)) \div 365
        doy == doe - (365 * yoe + (yoe \div 4) - (yoe \div 100))
        mp  == (5 * doy + 2) \div 153
        d   == doy - ((153 * mp + 2) \div 5) + 1
        m   == IF mp < 10 THEN mp + 3 ELSE mp - 9
        y   == yoe + era * 400 + (IF m <= 2 THEN 1 ELSE 0)
    IN  [year |-> y, month |-> m, day |-> d]

\* 0 = Sunday
Weekday(y, m, d) == (DaysFromCivil(y, m, d) + 4) % 7

\* day of the month of the n-th Sunday of month m
NthSunday(y, m, n) ==
    LET first == CHOOSE d \in 1..7 : Weekday(y, m, d) = 0
    IN  first + 7 * (n - 1)

\* minutes from 1970-01-01T00:00 of a wall-clock reading
WallMinutes(dt) ==
    DaysFromCivil(dt.year, dt.month, dt.day) * 1440 + dt.hour * 60 + dt.minute

(***************************************************************************)
(* dateutil.tz.  gettz(name) gives the zone of the timezone database       *)
(* called name, and None when there is none; it raises nothing.  The       *)
(* database is represented by two of its zones.  America/Chicago follows   *)
(* the rule in force since 2007: daylight time from the second Sunday of   *)
(* March 02:00 to the first Sunday of November 02:00.                      *)
(***************************************************************************)
Zones == {"America/Chicago", "UTC"}

gettz(name) == IF name \in Zones THEN name ELSE NoTz

\* minutes of wall clock from the start of the year's daylight time and to its end
DstStart(y) == DaysFromCivil(y, 3, NthSunday(y, 3, 2)) * 1440 + 120

DstEnd(y) == DaysFromCivil(y, 11, NthSunday(y, 11, 1)) * 1440 + 120

\* tzinfo.utcoffset(dt) in minutes, dt a wall-clock reading in zone
utcoffset(zone, dt) ==
    IF zone = "UTC" THEN 0
    ELSE IF DstStart(dt.year) <= WallMinutes(dt) /\ WallMinutes(dt) < DstEnd(dt.year)
    THEN -300
    ELSE -360

\* tzinfo.fromutc: the offset of zone at the instant u (minutes from the epoch, UTC)
OffsetAtUtc(zone, u) ==
    IF zone = "UTC" THEN 0
    ELSE LET y == CivilFromDays((u - 360) \div 1440).year
         IN  IF DstStart(y) <= u - 360 /\ u - 300 < DstEnd(y) THEN -300 ELSE -360

(***************************************************************************)
(* datetime.isoformat() of dt.replace(tzinfo=zone): the offset is written  *)
(* only when the datetime has a tzinfo.                                    *)
(***************************************************************************)
OffsetText(mins) ==
    LET a == IF mins < 0 THEN -mins ELSE mins
    IN  <<IF mins < 0 THEN "-" ELSE "+">> \o Pad2(a \div 60) \o <<":">> \o Pad2(a % 60)

isoformat(dt, zone) ==
    Pad4(dt.year) \o <<"-">> \o Pad2(dt.month) \o <<"-">> \o Pad2(dt.day) \o <<"T">>
    \o Pad2(dt.hour) \o <<":">> \o Pad2(dt.minute) \o <<":">> \o Pad2(dt.second)
    \o (IF zone = NoTz THEN <<>> ELSE OffsetText(utcoffset(zone, dt)))

\* lines 136-137 (and 138-139, 229-232, 334-335, 338-339): parse, attach, format
Normalize(s, timezone) ==
    LET dt == strptime(s)
    IN  IF dt.ok THEN [ok |-> TRUE, value |-> isoformat(dt, gettz(timezone))]
        ELSE dt

(***************************************************************************)
(* _parse_event (lines 106-115): the display form of a provider event.     *)
(* parser.parse reads the provider's RFC 3339 text: a date alone is a      *)
(* naive midnight, a date and time may end in Z or in a +hh:mm offset.     *)
(* astimezone takes a naive reading as the process's local time, and       *)
(* astimezone(None) converts to the process's local zone.                  *)
(***************************************************************************)
\* the zone of the process running the tools
LocalZone == "UTC"

Num2(s, p) == 10 * DigitVal(s[p]) + DigitVal(s[p + 1])

\* parser.parse(s): wall-clock fields, and the offset in minutes when s has one
parse(s) ==
    LET y == 100 * Num2(s, 1) + Num2(s, 3)
        timed == Len(s) >= 19
        sign == IF At(s, 20) = "-" THEN -1 ELSE 1
    IN  [year |-> y, month |-> Num2(s, 6), day |-> Num2(s, 9),
         hour |-> IF timed THEN Num2(s, 12) ELSE 0,
         minute |-> IF timed THEN Num2(s, 15) ELSE 0,
         second |-> IF timed THEN Num2(s, 18) ELSE 0,
         aware |-> Len(s) > 19,
         offset |-> IF Len(s) = 25 THEN sign * (60 * Num2(s, 21) + Num2(s, 24)) ELSE 0]

\* the instant of a parsed reading, in minutes from the epoch (UTC)
UtcMinutes(dt) ==
    WallMinutes(dt) - (IF dt.aware THEN dt.offset ELSE utcoffset(LocalZone, dt))

\* parser.parse(s).astimezone(tz.gettz(timezone)).strftime('%Y/%m/%d %H:%M:%S')
DisplayTime(s, timezone) ==
    LET dt    == parse(s)
        u     == UtcMinutes(dt)
        zone  == IF gettz(timezone) = NoTz THEN LocalZone ELSE gettz(timezone)
        local == u + OffsetAtUtc(zone, u)
        civ   == CivilFromDays(local \div 1440)
        mins  == local % 1440
    IN  Pad4(civ.year) \o <<"/">> \o Pad2(civ.month) \o <<"/">> \o Pad2(civ.day)
        \o <<" ">> \o Pad2(mins \div 60) \o <<":">> \o Pad2(mins % 60)
        \o <<":">> \o Pad2(dt.second)

\* dict.get(key, default)
Get(d, key, default) == IF key \in DOMAIN d THEN d[key] ELSE default

\* d[key] = value on a dict
SetItem(d, key, value) ==
    [k \in (DOMAIN d) \cup {key} |-> IF k = key THEN value ELSE d[k]]

\* x['start'].get('dateTime', x['start'].get('date')): lines 108, 110 and 152
TimeOf(part) == Get(part, "dateTime", Get(part, "date", NoneDT))

PassthroughFields == {"id", "summary", "description", "location", "hangoutLink"}

_parse_event(e, timezone) ==
    [k \in {"start", "end"} \cup PassthroughFields |->
        IF k \in {"start", "end"} THEN DisplayTime(TimeOf(e[k]), timezone)
        ELSE Get(e, k, NoneV)]

(***************************************************************************)
(* sorted(events, key=...) of line 152: Python's sort is stable, and the   *)
(* keys are compared as str.                                               *)
(***************************************************************************)
StartKey(e) == TimeOf(e["start"])

\* e put behind every element of the sorted t whose key is not greater
InsertByStart(t, e) ==
    LET n == Cardinality({i \in 1..Len(t) : ~StrLess(StartKey(e), StartKey(t[i]))})
    IN  SubSeq(t, 1, n) \o <<e>> \o SubSeq(t, n + 1, Len(t))

RECURSIVE SortRec(_)
SortRec(s) ==
    IF s = <<>> THEN <<>>
    ELSE InsertByStart(SortRec(SubSeq(s, 1, Len(s) - 1)), s[Len(s)])

\* a sort that leaves the concatenation as it is
UnsortedEvents(s) == s

SortedEvents(s) == SortRec(s)

\* line 154
ParsedEvents(s, timezone) == [i \in 1..Len(s) |-> _parse_event(s[i], timezone)]

(***************************************************************************)
(* The request bodies of create (lines 235-247) and update (333-347).      *)
(***************************************************************************)
\* a body that carries location and description whatever their value
CreateBodyAlways(summary, start, end, location, description) ==
    [summary |-> summary, start |-> [dateTime |-> start], end |-> [dateTime |-> end],
     location |-> location, description |-> description]

CreateBody(summary, start, end, location, description) ==
    LET body  == [summary |-> summary,
                  start |-> [dateTime |-> start],
                  end |-> [dateTime |-> end]]
        body1 == IF location # "" THEN SetItem(body, "location", location) ELSE body
        body2 == IF description # "" THEN SetItem(body1, "description", description)
                 ELSE body1
    IN  body2

\* event['start']['dateTime'] = value, and the same for 'end'
SetTime(ev, part, value) == SetItem(ev, part, SetItem(ev[part], "dateTime", value))

\* event[key] = value when value is not None
SetIfGiven(ev, key, value) == IF value # NoneV THEN SetItem(ev, key, value) ELSE ev

\* an overlay that also writes the fields the caller left out (as empty text)
OverlayTextsAlways(ev, summary, location, description) ==
    LET blank(v) == IF v = NoneV THEN "" ELSE v
    IN  SetItem(SetItem(SetItem(ev, "summary", blank(summary)),
                        "location", blank(location)),
                "description", blank(description))

\* lines 341-347
OverlayTexts(ev, summary, location, description) ==
    SetIfGiven(SetIfGiven(SetIfGiven(ev, "summary", summary), "location", location),
               "description", description)

\* lines 333-347 on the fetched event ev: the body to submit, or the ValueError
\* of the first supplied datetime that does not parse
UpdateBody(ev, a) ==
    LET s   == IF a.start_datetime # NoneDT THEN Normalize(a.start_datetime, a.timezone)
               ELSE [ok |-> TRUE]
        ev1 == IF a.start_datetime # NoneDT THEN SetTime(ev, "start", s.value) ELSE ev
        e   == IF a.end_datetime # NoneDT THEN Normalize(a.end_datetime, a.timezone)
               ELSE [ok |-> TRUE]
        ev2 == IF a.end_datetime # NoneDT THEN SetTime(ev1, "end", e.value) ELSE ev1
    IN  IF ~s.ok THEN ValueError
        ELSE IF ~e.ok THEN ValueError
        ELSE [ok |-> TRUE,
              value |-> OverlayTexts(ev2, a.summary, a.location, a.description)]

(***************************************************************************)
(* Bounds and inputs.                                                      *)
(***************************************************************************)
\* calendars in the provider's calendar list, at most
MaxCalendars == 2

\* the largest max_results a caller passes
MaxResults == 2

DtA == <<"2", "0", "2", "4", "-", "0", "7", "-", "0", "1", "T", "1", "0", ":", "3", "0", ":", "0", "0">>

DtB == <<"2", "0", "2", "4", "-", "0", "7", "-", "0", "1", "T", "1", "1", ":", "3", "0", ":", "0", "0">>

\* not of the shape YYYY-MM-DDTHH:MM:SS, yet matched by the format's expression
DtShort == <<"2", "0", "2", "4", "-", "6", "-", "1", "T", "9", ":", "5", ":", "3">>

DtOutOfRange == <<"2", "0", "2", "4", "-", "1", "3", "-", "4", "0", "T", "9", "9", ":", "9", "9", ":", "9", "9">>

DtNotADate == <<"n", "o", "t", "-", "a", "-", "d", "a", "t", "e">>

\* the datetime strings callers pass, and for update None as well
DatetimeInputs == <<DtA, DtB, DtShort, DtOutOfRange, DtNotADate>>

OptionalDatetimeInputs == <<NoneDT>> \o DatetimeInputs

\* the timezone names callers pass; the last is no name of the timezone database
TimezoneInputs == <<"America/Chicago", "UTC", "Mars/Phobos">>

(***************************************************************************)
(* The provider.  Its calendar list holds up to MaxCalendars calendars,    *)
(* each flagged selected, flagged unselected, or without the flag.         *)
(***************************************************************************)
CalId(n) == <<"cal", n>>

CalendarItem(n, flag) ==
    IF flag = "absent" THEN [id |-> CalId(n)]
    ELSE [id |-> CalId(n), selected |-> (flag = "true")]

CalendarLists ==
    UNION {{[i \in 1..n |-> CalendarItem(i, f[i])] : f \in [1..n -> {"true", "false", "absent"}]}
           : n \in 0..MaxCalendars}

\* what a calendar holds inside the window, in the provider's order (by start
\* time): an all-day event, then 09:00 at -05:00, then 08:30 at -06:00, half an
\* hour later.  The third start is the smallest as text.
Catalogue(cal) ==
    << [id |-> <<cal, 1>>, summary |-> "Holiday",
        start |-> [date |-> <<"2", "0", "2", "4", "-", "0", "6", "-", "0", "1">>],
        end |-> [date |-> <<"2", "0", "2", "4", "-", "0", "6", "-", "0", "2">>]],
       [id |-> <<cal, 2>>, summary |-> "Standup", location |-> "Room 1",
        start |-> [dateTime |-> <<"2", "0", "2", "4", "-", "0", "6", "-", "0", "1", "T", "0", "9", ":", "0", "0", ":", "0", "0", "-", "0", "5", ":", "0", "0">>],
        end |-> [dateTime |-> <<"2", "0", "2", "4", "-", "0", "6", "-", "0", "1", "T", "0", "9", ":", "3", "0", ":", "0", "0", "-", "0", "5", ":", "0", "0">>]],
       [id |-> <<cal, 3>>, summary |-> "Call", hangoutLink |-> "https://meet/x",
        start |-> [dateTime |-> <<"2", "0", "2", "4", "-", "0", "6", "-", "0", "1", "T", "0", "8", ":", "3", "0", ":", "0", "0", "-", "0", "6", ":", "0", "0">>],
        end |-> [dateTime |-> <<"2", "0", "2", "4", "-", "0", "6", "-", "0", "1", "T", "0", "9", ":", "3", "0", ":", "0", "0", "-", "0", "6", ":", "0", "0">>]] >>

\* the elements of the set of indices S of seq, in their order in seq
RECURSIVE Pick(_, _)
Pick(seq, S) ==
    IF seq = <<>> THEN <<>>
    ELSE Pick(SubSeq(seq, 1, Len(seq) - 1), S)
         \o (IF Len(seq) \in S THEN <<seq[Len(seq)]>> ELSE <<>>)

\* the 'items' an events.list query of cal may answer with: any part of what the
\* calendar holds, in the provider's order, of at most maxResults events
EventPages(cal, maxResults) ==
    {Pick(Catalogue(cal), S) : S \in {T \in SUBSET (1..Len(Catalogue(cal))) : Cardinality(T) <= maxResults}}

\* the destination calendar of create and update (lines 234 and 330)
calendar == "52fe3095fadf982fb7b98c6f738320b0effd235826ed493d803627b8144a4045@group.calendar.google.com"

\* the events of the destination calendar before the call: a timed event and an
\* all-day event; etag stands for the fields the tools do not know
InitialStore ==
    [id \in {"e1", "e2"} |->
        IF id = "e1"
        THEN [id |-> "e1", summary |-> "Review", location |-> "Room 1", etag |-> "v1",
              start |-> [dateTime |-> <<"2", "0", "2", "4", "-", "0", "6", "-", "0", "3", "T", "1", "0", ":", "0", "0", ":", "0", "0", "-", "0", "5", ":", "0", "0">>,
                         timeZone |-> "America/Chicago"],
              end |-> [dateTime |-> <<"2", "0", "2", "4", "-", "0", "6", "-", "0", "3", "T", "1", "1", ":", "0", "0", ":", "0", "0", "-", "0", "5", ":", "0", "0">>,
                       timeZone |-> "America/Chicago"]]
        ELSE [id |-> "e2", summary |-> "Offsite", etag |-> "v1",
              start |-> [date |-> <<"2", "0", "2", "4", "-", "0", "6", "-", "0", "5">>],
              end |-> [date |-> <<"2", "0", "2", "4", "-", "0", "6", "-", "0", "6">>]]]

EventIdInputs == {"e1", "e2", "gone"}

\* the link of the provider's answer, and the texts of lines 251 and 351
HtmlLink == "https://calendar/event"

(***************************************************************************)
(* State.                                                                  *)
(***************************************************************************)
VARIABLES
    pc,         \* where the running tool call is: idle, list_loop, update_fetched, done
    args,       \* the arguments of the call
    items,      \* list: the 'items' of the provider's calendar list
    calendars,  \* list: the ids _get_calendars returned
    i,          \* list: the calendars queried so far
    pages,      \* list: the 'items' of each events.list answer, in order
    events,     \* list: the events gathered so far
    start,      \* list: the normalized window start
    end,        \* list: the normalized window end
    event,      \* update: the fetched event
    edited,     \* update: the fetched object as lines 333-347 have changed it
    store,      \* provider: the events of the destination calendar, by id
    replaced,   \* provider: the stored event that the update request replaced
    requests,   \* the requests the call has sent to the provider, in order
    result      \* what the call returned or raised

vars == <<pc, args, items, calendars, i, pages, events, start, end, event, edited,
          store, replaced, requests, result>>

NoArgs ==
    [op |-> "none", event_id |-> NoneV, start_datetime |-> NoneDT,
     end_datetime |-> NoneDT, max_results |-> 0, summary |-> NoneV,
     location |-> NoneV, description |-> NoneV, timezone |-> NoneV]

NoEvent == [id |-> NoneV]

Init ==
    /\ pc = "idle"
    /\ args = NoArgs
    /\ items = <<>>
    /\ calendars = <<>>
    /\ i = 0
    /\ pages = <<>>
    /\ events = <<>>
    /\ start = NoneDT
    /\ end = NoneDT
    /\ event = NoEvent
    /\ edited = NoEvent
    /\ store = InitialStore
    /\ replaced = NoEvent
    /\ requests = <<>>
    /\ result = [kind |-> "none", value |-> <<>>]

Returned(v) == [kind |-> "ok", value |-> v]

Raised(e) == [kind |-> e, value |-> <<>>]

(***************************************************************************)
(* list_google_calendar_events (lines 117-154).                            *)
(***************************************************************************)
\* a calendar list filter that keeps every calendar
AllCalendars(list) == [k \in 1..Len(list) |-> list[k].id]

\* lines 118-122: the ids of the items whose 'selected' is truthy
SelectedCalendars(list) ==
    LET RECURSIVE Keep(_)
        Keep(s) == IF Len(s) = 0 THEN <<>>
                   ELSE Keep(SubSeq(s, 1, Len(s) - 1))
                        \o (IF Get(s[Len(s)], "selected", FALSE)
                            THEN <<s[Len(s)].id>> ELSE <<>>)
    IN  Keep(list)

\* the call up to the loop: lines 133-139
ListCall ==
    /\ pc = "idle"
    /\ \E sk \in DOMAIN DatetimeInputs, ek \in DOMAIN DatetimeInputs,
          n \in 1..MaxResults, zk \in DOMAIN TimezoneInputs :
        LET s  == DatetimeInputs[sk]
            e  == DatetimeInputs[ek]
            z  == TimezoneInputs[zk]
            a  == [NoArgs EXCEPT !.op = "list", !.start_datetime = s,
                                 !.end_datetime = e, !.max_results = n, !.timezone = z]
            ns == Normalize(s, z)
            ne == Normalize(e, z)
        IN  /\ args' = a
            /\ requests' = <<[call |-> "calendarList.list"]>>
            /\ \/ \* the calendar list request fails
                  /\ result' = Raised("ProviderError")
                  /\ pc' = "done"
                  /\ UNCHANGED <<items, calendars, start, end>>
               \/ \E answer \in CalendarLists :
                    /\ items' = answer
                    /\ calendars' = SelectedCalendars(answer)
                    /\ IF ~ns.ok
                       THEN /\ result' = Raised("ValueError")
                            /\ pc' = "done"
                            /\ UNCHANGED <<start, end>>
                       ELSE IF ~ne.ok
                       THEN /\ result' = Raised("ValueError")
                            /\ pc' = "done"
                            /\ start' = ns.value
                            /\ UNCHANGED end
                       ELSE /\ start' = ns.value
                            /\ end' = ne.value
                            /\ pc' = "list_loop"
                            /\ UNCHANGED result
    /\ UNCHANGED <<i, pages, events, event, edited, store, replaced>>

\* a loop that goes on to the next calendar when a query fails
QuerySkipped ==
    /\ i' = i + 1
    /\ UNCHANGED <<pc, result, pages, events>>

\* execute() of line 148 raises: nothing catches it, the call ends with the error
QueryFailed ==
    /\ result' = Raised("ProviderError")
    /\ pc' = "done"
    /\ UNCHANGED <<i, pages, events>>

\* one turn of the loop: lines 140-150
ListQuery ==
    /\ pc = "list_loop"
    /\ i < Len(calendars)
    /\ LET cal == calendars[i + 1]
       IN  /\ requests' = Append(requests,
                              [call |-> "events.list", calendarId |-> cal,
                               timeMin |-> start, timeMax |-> end,
                               maxResults |-> args.max_results,
                               singleEvents |-> TRUE, orderBy |-> "startTime"])
           /\ \/ \E cal_events \in EventPages(cal, args.max_results) :
                    /\ pages' = Append(pages, cal_events)
                    /\ events' = events \o cal_events
                    /\ i' = i + 1
                    /\ UNCHANGED <<pc, result>>
              \/ QueryFailed
    /\ UNCHANGED <<args, items, calendars, start, end, event, edited, store, replaced>>

\* after the loop: lines 152-154
ListReturn ==
    /\ pc = "list_loop"
    /\ i = Len(calendars)
    /\ events' = SortedEvents(events)
    /\ result' = Returned(ParsedEvents(events', args.timezone))
    /\ pc' = "done"
    /\ UNCHANGED <<args, items, calendars, i, pages, start, end, event, edited, store,
                   replaced, requests>>

(***************************************************************************)
(* create_google_calendar_event (lines 229-251).                           *)
(***************************************************************************)
\* event.get('htmlLink', fallback) behind the prefix: lines 251 and 351
Message(prefix, answer, fallback) == <<prefix, Get(answer, "htmlLink", fallback)>>

\* the provider's answer to an insert or update: the event, with or without a link
Answers(body) == {body, SetItem(body, "htmlLink", HtmlLink)}

CreateCall ==
    /\ pc = "idle"
    /\ \E sk \in DOMAIN DatetimeInputs, ek \in DOMAIN DatetimeInputs,
          zk \in DOMAIN TimezoneInputs, loc \in {"", "Room 2"}, desc \in {"", "notes"} :
        LET s  == DatetimeInputs[sk]
            e  == DatetimeInputs[ek]
            z  == TimezoneInputs[zk]
            a  == [NoArgs EXCEPT !.op = "create", !.start_datetime = s,
                                 !.end_datetime = e, !.summary = "Test event",
                                 !.location = loc, !.description = desc,
                                 !.timezone = z]
            ns == Normalize(s, z)
            ne == Normalize(e, z)
        IN  /\ args' = a
            /\ pc' = "done"
            /\ IF ~ns.ok \/ ~ne.ok
               THEN /\ result' = Raised("ValueError")
                    /\ UNCHANGED <<requests, store>>
               ELSE LET body == CreateBody(a.summary, ns.value, ne.value, loc, desc)
                    IN  /\ requests' = <<[call |-> "events.insert",
                                          calendarId |-> calendar, body |-> body]>>
                        /\ \/ \* the provider stores the event under a new id
                              \E answer \in Answers(SetItem(body, "id", "e3")) :
                                /\ store' = SetItem(store, "e3", SetItem(body, "id", "e3"))
                                /\ result' = Returned(Message("Event created: ", answer,
                                                              "Failed to create event"))
                           \/ \* the provider rejects the request
                              /\ result' = Raised("ProviderError")
                              /\ UNCHANGED store
    /\ UNCHANGED <<items, calendars, i, pages, events, start, end, event, edited,
                   replaced>>

(***************************************************************************)
(* update_google_calendar_event (lines 330-351): the event is fetched,     *)
(* changed in memory and sent back whole.  Between the two requests the    *)
(* provider serves other writers.                                          *)
(***************************************************************************)
\* line 331
UpdateCall ==
    /\ pc = "idle"
    /\ \E id \in EventIdInputs, sk \in DOMAIN OptionalDatetimeInputs,
          ek \in DOMAIN OptionalDatetimeInputs, zk \in DOMAIN TimezoneInputs,
          sum \in {NoneV, "Retro"}, loc \in {NoneV, "", "Room 2"},
          desc \in {NoneV, "notes"} :
        /\ args' = [NoArgs EXCEPT !.op = "update", !.event_id = id,
                                  !.start_datetime = OptionalDatetimeInputs[sk],
                                  !.end_datetime = OptionalDatetimeInputs[ek],
                                  !.summary = sum, !.location = loc,
                                  !.description = desc,
                                  !.timezone = TimezoneInputs[zk]]
        /\ requests' = <<[call |-> "events.get", calendarId |-> calendar,
                          eventId |-> id]>>
        /\ \/ /\ id \in DOMAIN store
              /\ event' = store[id]
              /\ edited' = store[id]
              /\ pc' = "update_fetched"
              /\ UNCHANGED result
           \/ \* no such event, or the request fails
              /\ result' = Raised("ProviderError")
              /\ pc' = "done"
              /\ UNCHANGED <<event, edited>>
    /\ UNCHANGED <<items, calendars, i, pages, events, start, end, store, replaced>>

\* another client of the provider changes the fetched event's title or place
ExternalWrite ==
    /\ pc = "update_fetched"
    /\ \E k \in {"summary", "location"} :
        LET v == IF k = "summary" THEN "Renamed" ELSE "Annex"
        IN  /\ Get(store[event.id], k, NoneV) # v
            /\ store' = [store EXCEPT ![event.id] = SetItem(@, k, v)]
    /\ UNCHANGED <<pc, args, items, calendars, i, pages, events, start, end, event,
                   edited, replaced, requests, result>>

\* a submit that starts from the event as stored now
CurrentEvent == store[event.id]

\* the event the update changes: the copy fetched at line 331
FetchedEvent == event

\* lines 333-340 as far as they get when a supplied datetime does not parse: a
\* start that parsed is already written into the object when the end fails
PartlyEdited(ev, a) ==
    IF a.start_datetime # NoneDT /\ Normalize(a.start_datetime, a.timezone).ok
    THEN SetTime(ev, "start", Normalize(a.start_datetime, a.timezone).value)
    ELSE ev

\* a tool that sends what it has written so far before it raises
NormalizationFailedAfterSubmit ==
    /\ result' = Raised("ValueError")
    /\ edited' = PartlyEdited(FetchedEvent, args)
    /\ requests' = Append(requests,
                          [call |-> "events.update", calendarId |-> calendar,
                           eventId |-> edited'.id, body |-> edited'])
    /\ store' = [store EXCEPT ![edited'.id] = edited']
    /\ replaced' = store[edited'.id]

\* strptime of line 334 or 338 raises: nothing catches it, line 349 is not reached
NormalizationFailed ==
    /\ result' = Raised("ValueError")
    /\ edited' = PartlyEdited(FetchedEvent, args)
    /\ UNCHANGED <<requests, store, replaced>>

\* lines 333-351
UpdateSubmit ==
    /\ pc = "update_fetched"
    /\ pc' = "done"
    /\ LET b == UpdateBody(FetchedEvent, args)
       IN  IF ~b.ok
           THEN NormalizationFailed
           ELSE /\ edited' = b.value
                /\ requests' = Append(requests,
                                  [call |-> "events.update", calendarId |-> calendar,
                                   eventId |-> b.value.id, body |-> b.value])
                /\ \/ \* the provider replaces the stored event by the body
                      \E answer \in Answers(b.value) :
                        /\ store' = [store EXCEPT ![b.value.id] = b.value]
                        /\ replaced' = store[b.value.id]
                        /\ result' = Returned(Message("Event updated: ", answer,
                                                      "Failed to update event"))
                   \/ \* the provider rejects the request
                      /\ result' = Raised("ProviderError")
                      /\ UNCHANGED <<store, replaced>>
    /\ UNCHANGED <<args, items, calendars, i, pages, events, start, end, event>>

Next ==
    \/ ListCall
    \/ ListQuery
    \/ ListReturn
    \/ CreateCall
    \/ UpdateCall
    \/ ExternalWrite
    \/ UpdateSubmit

Spec == Init /\ [][Next]_vars

(***************************************************************************)
(* Properties.                                                             *)
(***************************************************************************)
RequestsOf(call) == {k \in 1..Len(requests) : requests[k].call = call}

RECURSIVE Concat(_)
Concat(lists) ==
    IF Len(lists) = 0 THEN <<>>
    ELSE Concat(SubSeq(lists, 1, Len(lists) - 1)) \o lists[Len(lists)]

RECURSIVE SumLen(_)
SumLen(lists) ==
    IF Len(lists) = 0 THEN 0
    ELSE SumLen(SubSeq(lists, 1, Len(lists) - 1)) + Len(lists[Len(lists)])

ListReturned == args.op = "list" /\ pc = "done" /\ result.kind = "ok"

\* C1: a listing that returns gives one list as long as the per-calendar answers
\* together, holding each event the provider returned exactly once, and ordered
\* by start key (start.dateTime, else start.date) compared as text.
C1_MergedAndOrdered ==
    ListReturned =>
        /\ Len(result.value) = SumLen(pages)
        /\ \A e \in {Concat(pages)[k] : k \in 1..Len(Concat(pages))} :
             Cardinality({k \in 1..Len(result.value) : result.value[k].id = e.id}) = 1
        /\ \A k \in 1..Len(result.value) :
             /\ result.value[k] = _parse_event(events[k], args.timezone)
             /\ k > 1 => StrLeq(StartKey(events[k - 1]), StartKey(events[k]))

\* C1 witness: two calendars answered with events, and the merged order differs
\* from the order of arrival
C1_Witness ==
    /\ ListReturned
    /\ Len(pages) = 2
    /\ Len(pages[1]) > 0
    /\ Len(pages[2]) > 0
    /\ events # Concat(pages)

SuppliedTimes == {k \in {"start", "end"} :
                    (IF k = "start" THEN args.start_datetime ELSE args.end_datetime) # NoneDT}

SuppliedTexts == {k \in {"summary", "location", "description"} : args[k] # NoneV}

\* the value the caller supplied for key k of the event
SuppliedValue(k) ==
    IF k = "start"
    THEN SetItem(event["start"], "dateTime", Normalize(args.start_datetime, args.timezone).value)
    ELSE IF k = "end"
    THEN SetItem(event["end"], "dateTime", Normalize(args.end_datetime, args.timezone).value)
    ELSE args[k]

\* C2: the body of the update request is the fetched event with the supplied
\* fields overlaid (a supplied start or end replaces the dateTime of that part)
\* and every other field as fetched; with no field supplied the body is the
\* fetched event, and the stored event after the update is the fetched one.
C2_OverlayOnly ==
    \A r \in RequestsOf("events.update") :
        LET body == requests[r].body
        IN  /\ DOMAIN body = (DOMAIN event) \cup SuppliedTimes \cup SuppliedTexts
            /\ \A k \in DOMAIN body :
                 body[k] = IF k \in SuppliedTimes \cup SuppliedTexts
                           THEN SuppliedValue(k) ELSE event[k]
            /\ (SuppliedTimes \cup SuppliedTexts = {}) =>
                 /\ body = event
                 /\ result.kind = "ok" => store[event.id] = event

\* C2 witness: an update with only event_id, accepted by the provider
C2_Witness ==
    /\ args.op = "update"
    /\ pc = "done"
    /\ result.kind = "ok"
    /\ SuppliedTimes \cup SuppliedTexts = {}
    /\ RequestsOf("events.update") # {}

OpDone == pc = "done" /\ args.op \in {"list", "create", "update"}

\* C3: an operation given a timezone name outside the timezone database never
\* completes successfully.
C3_UnknownTimezoneFails ==
    (OpDone /\ args.timezone \notin Zones) => result.kind # "ok"

\* isoformat text with a +hh:mm or -hh:mm offset behind the seconds
HasOffset(ts) == Len(ts) = 25 /\ ts[20] \in {"+", "-"}

\* C4: every timestamp the tools produce for a request carries an explicit
\* offset: timeMin and timeMax of a listing, start and end of a created event,
\* and a supplied start or end of an update.
C4_OffsetsExplicit ==
    \A r \in 1..Len(requests) :
        /\ requests[r].call = "events.list" =>
             HasOffset(requests[r].timeMin) /\ HasOffset(requests[r].timeMax)
        /\ requests[r].call = "events.insert" =>
             /\ HasOffset(requests[r].body["start"].dateTime)
             /\ HasOffset(requests[r].body["end"].dateTime)
        /\ requests[r].call = "events.update" =>
             \A k \in SuppliedTimes : HasOffset(requests[r].body[k].dateTime)

\* whether the time of part a is an earlier instant than that of part b
Earlier(a, b) ==
    LET x == parse(TimeOf(a))
        y == parse(TimeOf(b))
    IN  \/ UtcMinutes(x) < UtcMinutes(y)
        \/ UtcMinutes(x) = UtcMinutes(y) /\ x.second < y.second

\* C5: the body of every insert and every update request has start before end.
C5_StartBeforeEnd ==
    \A r \in RequestsOf("events.insert") \cup RequestsOf("events.update") :
        Earlier(requests[r].body["start"], requests[r].body["end"])

\* a valid datetime of the shape YYYY-MM-DDTHH:MM:SS
WellFormed(s) ==
    /\ Len(s) = 19
    /\ \A k \in {1, 2, 3, 4, 6, 7, 9, 10, 12, 13, 15, 16, 18, 19} : IsDigit(s[k])
    /\ s[5] = "-" /\ s[8] = "-" /\ s[11] = "T" /\ s[14] = ":" /\ s[17] = ":"
    /\ ValidFields(100 * Num2(s, 1) + Num2(s, 3), Num2(s, 6), Num2(s, 9),
                   Num2(s, 12), Num2(s, 15), Num2(s, 18))

\* C6: an operation given a start or end datetime string that is not a valid
\* datetime of the shape YYYY-MM-DDTHH:MM:SS never completes successfully: the
\* string is not taken for some instant.
C6_MalformedRejected ==
    (OpDone /\ \E s \in {args.start_datetime, args.end_datetime} :
                  s # NoneDT /\ ~WellFormed(s))
        => result.kind # "ok"

UpdateAccepted == args.op = "update" /\ pc = "done" /\ result.kind = "ok"

\* C7: an accepted update leaves the stored event equal to the body built from
\* the copy fetched earlier, so every field the caller did not supply has its
\* fetched value, whatever another writer stored in between.
C7_LastWriterWins ==
    UpdateAccepted =>
        /\ store[event.id] = requests[Len(requests)].body
        /\ \A k \in (DOMAIN event) \ (SuppliedTimes \cup SuppliedTexts) :
             k \in DOMAIN store[event.id] /\ store[event.id][k] = event[k]

\* C7 witness: the update replaced a stored event that another writer had
\* changed after the fetch, in a field the caller did not supply
C7_Witness ==
    /\ UpdateAccepted
    /\ \E k \in {"summary", "location"} \ SuppliedTexts :
         /\ Get(replaced, k, NoneV) # Get(event, k, NoneV)
         /\ Get(store[event.id], k, NoneV) = Get(event, k, NoneV)

\* C8: the body of an insert request has a location key exactly when the
\* caller's location is not the empty string, with the caller's value, and
\* likewise a description key.
C8_EmptyTextOmitted ==
    \A r \in RequestsOf("events.insert") :
        \A k \in {"location", "description"} :
            /\ (k \in DOMAIN requests[r].body) <=> (args[k] # "")
            /\ (k \in DOMAIN requests[r].body) => requests[r].body[k] = args[k]

\* C8 witness: a create with an empty location and a description
C8_Witness ==
    /\ args.op = "create"
    /\ RequestsOf("events.insert") # {}
    /\ args.location = ""
    /\ args.description # ""

\* an events.list request got no answer: requests hold the calendar list request,
\* one request per answered page, and more
QueryUnanswered == args.op = "list" /\ Len(requests) > 1 + Len(pages)

\* C9: once an events query has failed the listing is over with the provider's
\* error and no result list; the failed query is the last request (no retry, no
\* further calendar), and the events gathered before are not returned.
C9_FailFast ==
    QueryUnanswered =>
        /\ pc = "done"
        /\ result = Raised("ProviderError")
        /\ Len(requests) = Len(pages) + 2
        /\ \A j, k \in RequestsOf("events.list") :
             j # k => requests[j].calendarId # requests[k].calendarId

\* C9 witness: the second query failed after the first had brought events
C9_Witness ==
    /\ QueryUnanswered
    /\ Len(pages) = 1
    /\ events # <<>>

\* the provider answered the calendar list request, and no calendar of the
\* answer is flagged selected; the window and the timezone are valid
NothingSelected ==
    /\ args.op = "list"
    /\ pc \in {"list_loop", "done"}
    /\ ~(pc = "done" /\ Len(requests) = 1 /\ result.kind = "ProviderError")
    /\ \A k \in 1..Len(items) : ~Get(items[k], "selected", FALSE)
    /\ WellFormed(args.start_datetime)
    /\ WellFormed(args.end_datetime)
    /\ args.timezone \in Zones

\* C10: a listing with no selected calendar sends no events query, raises
\* nothing and returns the empty list.
C10_EmptyListing ==
    NothingSelected =>
        /\ RequestsOf("events.list") = {}
        /\ result.kind \in {"none", "ok"}
        /\ pc = "done" => result = Returned(<<>>)

\* C10 witness: the calendar list holds calendars, none selected, and the
\* listing has returned
C10_Witness ==
    /\ NothingSelected
    /\ Len(items) > 0
    /\ pc = "done"


\* a step in which create or update raises the ValueError of a datetime
NormalizationFails ==
    /\ result.kind = "none"
    /\ result'.kind = "ValueError"
    /\ args'.op \in {"create", "update"}

\* C11: a create or an update that fails while normalizing a datetime sends no
\* insert and no update request, in that step or before it, and leaves every
\* stored event as it was, also when the start had already been written into the
\* fetched object.
C11_FailedNormalizationSendsNothing ==
    [][NormalizationFails =>
          /\ store' = store
          /\ replaced' = replaced
          /\ \A k \in 1..Len(requests') :
               requests'[k].call \notin {"events.insert", "events.update"}]_vars

\* C11 witness: an update raised on its end datetime after its start had been
\* written into the fetched object; no update request was sent and the stored
\* event is the fetched one
C11_Witness ==
    /\ args.op = "update"
    /\ pc = "done"
    /\ result.kind = "ValueError"
    /\ edited # event
    /\ RequestsOf("events.update") = {}
    /\ store[event.id] = event
=============================================================================
